---------------------------- MODULE Spec2Model ----------------------------
(***************************************************************************)
(* PrivateRoute and Dashboard of the h3cker frontend                       *)
(* (src/frontend/src/Routes/PrivateRoute/Privateroute.jsx).                *)
(*                                                                         *)
(* Both components read the same AuthContext {user, loading}.              *)
(* PrivateRoute keeps authChecked and renders a spinner, a redirect or its *)
(* children.  Dashboard keeps loading, error and stats, and an effect on   *)
(* [isMainDashboard, user?.email] that starts one getVideoFeed call whose  *)
(* continuation is guarded by the effect's isMounted flag.                 *)
(*                                                                         *)
(* JavaScript values: an optional value (undefined, null, a missing field) *)
(* is the empty sequence Missing, a present value x is <<x>>.  A string is *)
(* a sequence of characters, so that toLowerCase is computed.              *)
(***************************************************************************)
EXTENDS Integers, Sequences, FiniteSets

\* ------------------------------------------------------------------ bounds

\* Longest feed getVideoFeed resolves with in StatsSpec.
MaxFeedLen == 4
\* getVideoFeed calls that may be in flight at once.
MaxInFlight == 2

\* ------------------------------------------------------- JavaScript values

Missing == <<>>

Some(x) == <<x>>

\* x || 0 on an optional number: undefined, null and 0 are falsy.
OrZero(m) == IF m = Missing THEN 0 ELSE m[1]

\* String.prototype.toLowerCase on one character of the alphabet used here.
LowerChar(c) ==
  CASE c = "A" -> "a"
    [] c = "B" -> "b"
    [] c = "X" -> "x"
    [] OTHER -> c

\* String.prototype.toLowerCase.
ToLowerCase(s) == [i \in DOMAIN s |-> LowerChar(s[i])]

\* m?.toLowerCase() on an optional string: undefined stays undefined.
OptLower(m) == IF m = Missing THEN Missing ELSE Some(ToLowerCase(m[1]))

\* Days from 1970-01-01 to the civil date <<y, m, d>> (the value of
\* new Date("y-m-d"), in days instead of milliseconds).
DaysFromCivil(date) ==
  LET y   == IF date[2] <= 2 THEN date[1] - 1 ELSE date[1]
      era == y \div 400
      yoe == y - era * 400
      mp  == IF date[2] > 2 THEN date[2] - 3 ELSE date[2] + 9
      doy == (153 * mp + 2) \div 5 + date[3] - 1
      doe == yoe * 365 + yoe \div 4 - yoe \div 100 + doy
  IN  era * 146097 + doe - 719468

\* new Date(upload_date || 0): a missing date is the epoch.
DateOf(m) == IF m = Missing THEN 0 ELSE DaysFromCivil(m[1])

\* ------------------------------------------------------------ video records

Video(id, ue, nested, views, likes, date) ==
  [id |-> id, uploader_email |-> ue, uploader |-> nested,
   views |-> views, likes |-> likes, upload_date |-> date]

Uploader(e) == Some([email |-> e])

ax == <<"a", "@", "x">>
Ax == <<"A", "@", "x">>
aX == <<"a", "@", "X">>
bx == <<"b", "@", "x">>

\* The records the feed is drawn from: both spellings of one address,
\* another uploader, a record that names its uploader only in the nested
\* uploader object, a record whose two uploader fields disagree, missing
\* and zero counters, missing and equal dates.
Videos ==
  { Video(1, Some(Ax), Missing, Some(5), Some(1), Some(<<2024, 1, 1>>)),
    Video(2, Some(ax), Missing, Some(10), Some(2), Some(<<2024, 2, 1>>)),
    Video(3, Missing, Uploader(Some(aX)), Missing, Missing, Missing),
    Video(4, Some(bx), Missing, Some(7), Some(3), Some(<<2024, 3, 1>>)),
    Video(5, Some(bx), Uploader(Some(ax)), Some(10), Some(0),
          Some(<<2024, 1, 1>>)),
    Video(6, Some(ax), Uploader(Missing), Some(0), Missing,
          Some(<<2023, 12, 31>>)) }

\* ------------------------------------------------------- stats computation

ZeroStats ==
  [totalVideos |-> 0, totalViews |-> 0, totalLikes |-> 0, storageUsed |-> 0,
   recentVideos |-> <<>>, popularVideos |-> <<>>]

\* The filter predicate without toLowerCase.
IsUserVideoCaseSensitive(video, email) ==
  \/ video.uploader_email = Some(email)
  \/ /\ video.uploader # Missing
     /\ video.uploader[1].email = Some(email)

\* The filter predicate of userVideos.
IsUserVideo(video, email) ==
  \/ OptLower(video.uploader_email) = Some(ToLowerCase(email))
  \/ /\ video.uploader # Missing
     /\ OptLower(video.uploader[1].email) = Some(ToLowerCase(email))

\* The elements of an array.
Elements(s) == {s[i] : i \in DOMAIN s}

\* Array.prototype.filter, keep being the predicate's value on each element.
Filter(s, keep) ==
  LET f[i \in 0..Len(s)] ==
        IF i = 0 THEN <<>>
        ELSE IF keep[s[i]] THEN Append(f[i - 1], s[i]) ELSE f[i - 1]
  IN  f[Len(s)]

\* Array.prototype.reduce((sum, v) => sum + (v[field] || 0), 0).
Reduce(s, field) ==
  LET f[i \in 0..Len(s)] ==
        IF i = 0 THEN 0 ELSE f[i - 1] + OrZero(s[i][field])
  IN  f[Len(s)]

\* The comparators with their operands exchanged: ascending.
ByDateAscending(a, b) == DateOf(a.upload_date) - DateOf(b.upload_date)

ByViewsAscending(a, b) == OrZero(a.views) - OrZero(b.views)

\* The comparators of sortedByDate and sortedByViews.
ByDate(a, b) == DateOf(b.upload_date) - DateOf(a.upload_date)

ByViews(a, b) == OrZero(b.views) - OrZero(a.views)

\* One insertion of a stable sort: x goes behind every element that does
\* not compare greater than it.  cmp is the comparator's value on each pair.
Insert(sorted, x, cmp) ==
  LET before == {j \in DOMAIN sorted : cmp[<<sorted[j], x>>] <= 0}
      p == IF before = {} THEN 0
           ELSE CHOOSE j \in before : \A k \in before : k <= j
  IN  SubSeq(sorted, 1, p) \o <<x>> \o SubSeq(sorted, p + 1, Len(sorted))

\* [...s].sort(cmp): Array.prototype.sort is stable.
Sort(s, cmp) ==
  LET f[i \in 0..Len(s)] ==
        IF i = 0 THEN <<>> ELSE Insert(f[i - 1], s[i], cmp)
  IN  f[Len(s)]

\* Array.prototype.slice(0, n).
Slice(s, n) == SubSeq(s, 1, IF Len(s) < n THEN Len(s) ELSE n)

\* The stats fetchDashboardData sets from an array response.
ComputeStats(allVideos, email) ==
  LET userVideos ==
        Filter(allVideos,
               [video \in Elements(allVideos) |-> IsUserVideo(video, email)])
      pairs == Elements(userVideos) \X Elements(userVideos)
      sortedByDate == Sort(userVideos, [p \in pairs |-> ByDate(p[1], p[2])])
      sortedByViews == Sort(userVideos, [p \in pairs |-> ByViews(p[1], p[2])])
  IN  IF Len(userVideos) > 0
      THEN [totalVideos |-> Len(userVideos),
            totalViews |-> Reduce(userVideos, "views"),
            totalLikes |-> Reduce(userVideos, "likes"),
            storageUsed |-> 25,
            recentVideos |-> Slice(sortedByDate, 3),
            popularVideos |-> Slice(sortedByViews, 2)]
      ELSE ZeroStats

\* ------------------------------------------------------------------- state

VARIABLES
  user,             \* AuthContext: Missing (null) or <<[email |-> string]>>
  authLoading,      \* AuthContext: loading
  authChecked,      \* PrivateRoute: useState(false)
  routeEffect,      \* PrivateRoute: its effect on [loading] is yet to run
  rendered,         \* PrivateRoute: what its last render returned
  settled,          \* history: AuthContext.loading has been false
  mounted,          \* Dashboard is mounted
  pathname,         \* Dashboard: location.pathname
  loading,          \* Dashboard: useState(true)
  error,            \* Dashboard: useState(null)
  stats,            \* Dashboard: useState({...zero/empty})
  dashEffect,       \* Dashboard: its effect on its dependencies is yet to run
  fetches,          \* getVideoFeed calls in flight, by slot
  lastEvent         \* history: the handler that ran last

vars ==
  <<user, authLoading, authChecked, routeEffect, rendered, settled, mounted,
    pathname, loading, error, stats, dashEffect, fetches, lastEvent>>

routeVars == <<authChecked, routeEffect, rendered>>

authVars == <<user, authLoading, settled>>

dashVars == <<mounted, pathname, loading, error, stats, dashEffect, fetches>>

\* The addresses a user signs in with.
UserEmails == {ax, Ax, bx}

Users == {Missing} \cup {Some([email |-> e]) : e \in UserEmails}

Paths == {"/dashboard", "/dashboard/upload"}

Slots == 1..MaxInFlight

\* user?.email
EmailOf(u) == IF u = Missing THEN Missing ELSE Some(u[1].email)

\* const isMainDashboard = location.pathname === '/dashboard'
IsMainDashboard(p) == p = "/dashboard"

\* --------------------------------------------------------------- responses

ArrayResponse(feed) == [kind |-> "array", value |-> feed, message |-> Missing]

NonArrayResponse == [kind |-> "nonarray", value |-> <<>>, message |-> Missing]

Rejection(m) == [kind |-> "reject", value |-> <<>>, message |-> m]

NoResponse == [kind |-> "none", value |-> <<>>, message |-> Missing]

\* fetchError.message: absent (or empty), or a text.
Messages == {Missing, Some("Network Error")}

DefaultMessage == "Failed to load video data. Please try again later."

\* Sequences over S of length at most n.
SeqUpTo(S, n) == UNION {[1..k -> S] : k \in 0..n}

\* The feeds of StatsSpec: every sequence of records up to MaxFeedLen.
AllFeeds == SeqUpTo(Videos, MaxFeedLen)

\* The feeds of Spec: none of the user's, some of one user's, of another's.
FewFeeds ==
  LET v == [i \in 1..6 |-> CHOOSE x \in Videos : x.id = i]
  IN  {<<>>, <<v[1], v[2]>>, <<v[4]>>}

\* ------------------------------------------------------------ PrivateRoute

\* Render without the authChecked latch: the spinner whenever loading.
RenderWithoutLatch(l, u, checked) ==
  IF l THEN "spinner"
  ELSE IF u = Missing THEN "redirect"
  ELSE "children"

\* What PrivateRoute returns.
Render(l, u, checked) ==
  IF l /\ ~checked THEN "spinner"
  ELSE IF u = Missing THEN "redirect"
  ELSE "children"

\* The record of a handler's run: its name and, for the effect and the
\* continuations of a fetch, the fetch (whether its effect was still live,
\* whether another call was in flight beside it, the email it filters by),
\* the response, and whether stats held a user's figures before.
Event(type, live, overlapped, email, response) ==
  [type |-> type, live |-> live, overlapped |-> overlapped, email |-> email,
   response |-> response, hadStats |-> stats # ZeroStats]

Quiet(type) == Event(type, FALSE, FALSE, <<>>, NoResponse)

\* useEffect(() => { if (!loading) setAuthChecked(true) }, [loading])
RouteEffectBody(l, checked) == IF ~l THEN TRUE ELSE checked

PrivateRouteEffect ==
  /\ routeEffect
  /\ authChecked' = RouteEffectBody(authLoading, authChecked)
  /\ routeEffect' = FALSE
  /\ rendered' = Render(authLoading, user, authChecked')
  /\ lastEvent' = Quiet("routeEffect")
  /\ UNCHANGED <<authVars, dashVars>>

\* The AuthProvider publishes a new {user, loading}.  React runs the effects
\* of the last render before it renders again, so none is pending here.
\* Both consumers render again; each effect whose dependency changed is
\* scheduled.
AuthChange(l, u) ==
  /\ ~routeEffect
  /\ ~dashEffect
  /\ <<l, u>> # <<authLoading, user>>
  /\ authLoading' = l
  /\ user' = u
  /\ settled' = (settled \/ ~l)
  /\ rendered' = Render(l, u, authChecked)
  /\ routeEffect' = (l # authLoading)
  /\ dashEffect' = (mounted /\ EmailOf(u) # EmailOf(user))
  /\ lastEvent' = Quiet("auth")
  /\ UNCHANGED <<authChecked, mounted, pathname, loading, error, stats,
                 fetches>>

\* --------------------------------------------------------------- Dashboard

NoFetch == Missing

InFlight == {s \in Slots : fetches[s] # NoFetch}

\* An effect that returns no cleanup: every isMounted stays as it is.
NoCleanup(fs) == fs

\* The cleanup of the effect: isMounted = false in the closure of the fetch
\* it started.
Cleanup(fs) ==
  [s \in Slots |->
     IF fs[s] = NoFetch THEN NoFetch
     ELSE Some([fs[s][1] EXCEPT !.isMounted = FALSE])]

\* Dashboard is mounted: the useState initial values, and the effect of the
\* first render is scheduled.
MountDashboard ==
  /\ ~mounted
  /\ mounted' = TRUE
  /\ loading' = TRUE
  /\ error' = Missing
  /\ stats' = ZeroStats
  /\ dashEffect' = TRUE
  /\ lastEvent' = Quiet("mount")
  /\ UNCHANGED <<authVars, routeVars, pathname, fetches>>

\* Dashboard is unmounted: the cleanup of its effect runs.
UnmountDashboard ==
  /\ mounted
  /\ ~dashEffect
  /\ mounted' = FALSE
  /\ fetches' = Cleanup(fetches)
  /\ lastEvent' = Quiet("unmount")
  /\ UNCHANGED <<authVars, routeVars, pathname, loading, error, stats,
                 dashEffect>>

\* The location changes while Dashboard is mounted.
Navigate(p) ==
  /\ mounted
  /\ ~dashEffect
  /\ p # pathname
  /\ pathname' = p
  /\ dashEffect' = (IsMainDashboard(p) # IsMainDashboard(pathname))
  /\ lastEvent' = Quiet("navigate")
  /\ UNCHANGED <<authVars, routeVars, mounted, loading, error, stats, fetches>>

\* The guard of the effect: if (!isMainDashboard || !user?.email)
SkipsFetch(p, u) == ~IsMainDashboard(p) \/ EmailOf(u) = Missing

\* VideoService.getVideoFeed() is called from the effect run for email: the
\* call takes the first free slot, with the isMounted flag of that run.
StartFetch(fs, email) ==
  LET free == CHOOSE s \in Slots :
                fs[s] = NoFetch /\ \A t \in Slots : fs[t] = NoFetch => s <= t
      busy == \E s \in Slots : fs[s] # NoFetch
  IN  [s \in Slots |->
         IF s = free
         THEN Some([email |-> email, isMounted |-> TRUE, overlapped |-> busy])
         ELSE IF fs[s] = NoFetch THEN NoFetch
         ELSE Some([fs[s][1] EXCEPT !.overlapped = TRUE])]

\* The effect on [isMainDashboard, user?.email]: the cleanup of its last
\* run, then its body up to the await.
DashboardEffect ==
  /\ mounted
  /\ dashEffect
  /\ dashEffect' = FALSE
  /\ IF SkipsFetch(pathname, user)
     THEN /\ loading' = FALSE
          /\ fetches' = Cleanup(fetches)
          /\ lastEvent' = Quiet("effect")
          /\ UNCHANGED error
     ELSE /\ \E s \in Slots : fetches[s] = NoFetch
          /\ loading' = TRUE
          /\ error' = Missing
          /\ fetches' = StartFetch(Cleanup(fetches), user[1].email)
          /\ lastEvent' = Event("effect", TRUE, InFlight # {}, user[1].email,
                                NoResponse)
  /\ UNCHANGED <<authVars, routeVars, mounted, pathname, stats>>

\* The non-array branch without its setStats: the last stats stay.
ResolveLiveKeepsStats(f, r) ==
  IF r.kind # "array"
  THEN /\ loading' = FALSE
       /\ UNCHANGED <<stats, error>>
  ELSE /\ stats' = ComputeStats(r.value, f.email)
       /\ loading' = FALSE
       /\ UNCHANGED error

\* What the continuation of a live fetch leaves in <<stats, error, loading>>
\* when getVideoFeed resolves with response r.
ResolveLive(f, r) ==
  IF r.kind # "array"
  THEN /\ stats' = ZeroStats
       /\ loading' = FALSE
       /\ UNCHANGED error
  ELSE /\ stats' = ComputeStats(r.value, f.email)
       /\ loading' = FALSE
       /\ UNCHANGED error

\* The catch block without the finally block's setLoading(false).
RejectLiveKeepsLoading(m) ==
  /\ error' = Some(IF m = Missing THEN DefaultMessage ELSE m[1])
  /\ stats' = ZeroStats
  /\ UNCHANGED loading

\* The catch block without its setStats: the last stats stay.
RejectLiveKeepsStats(m) ==
  /\ error' = Some(IF m = Missing THEN DefaultMessage ELSE m[1])
  /\ loading' = FALSE
  /\ UNCHANGED stats

\* The catch and finally blocks of a live fetch.
RejectLive(m) ==
  /\ error' = Some(IF m = Missing THEN DefaultMessage ELSE m[1])
  /\ stats' = ZeroStats
  /\ loading' = FALSE

\* A finally block that is not guarded: setLoading(false) whatever isMounted.
CompleteStaleSetsLoading ==
  /\ loading' = FALSE
  /\ UNCHANGED <<stats, error>>

\* The continuation of a fetch whose effect was cleaned up: the try block
\* returns at if (!isMounted), the catch and finally blocks skip their
\* writes.
CompleteStale == UNCHANGED <<stats, error, loading>>

\* await VideoService.getVideoFeed() resolves with r for the fetch in slot s.
FetchResolve(s, r) ==
  /\ fetches[s] # NoFetch
  /\ LET f == fetches[s][1]
     IN  /\ IF f.isMounted THEN ResolveLive(f, r) ELSE CompleteStale
         /\ lastEvent' = Event("resolve", f.isMounted, f.overlapped, f.email, r)
         /\ fetches' = [fetches EXCEPT ![s] = NoFetch]
  /\ UNCHANGED <<authVars, routeVars, mounted, pathname, dashEffect>>

\* await VideoService.getVideoFeed() rejects with an error whose message is m.
FetchReject(s, m) ==
  /\ fetches[s] # NoFetch
  /\ LET f == fetches[s][1]
     IN  /\ IF f.isMounted THEN RejectLive(m) ELSE CompleteStale
         /\ lastEvent' = Event("reject", f.isMounted, f.overlapped, f.email,
                               Rejection(m))
         /\ fetches' = [fetches EXCEPT ![s] = NoFetch]
  /\ UNCHANGED <<authVars, routeVars, mounted, pathname, dashEffect>>

\* What a live fetch's completion with response r leaves in
\* <<stats, error, loading>>: used to state whose result the state holds.
ResultOf(email, r) ==
  CASE r.kind = "array" -> <<ComputeStats(r.value, email), Missing, FALSE>>
    [] r.kind = "nonarray" -> <<ZeroStats, Missing, FALSE>>
    [] r.kind = "reject" ->
         <<ZeroStats,
           Some(IF r.message = Missing THEN DefaultMessage ELSE r.message[1]),
           FALSE>>

\* The Alert is rendered when isMainDashboard, not loading, and error.
AlertShown == mounted /\ IsMainDashboard(pathname) /\ ~loading /\ error # Missing

\* A dismiss that also fetches again.
DismissErrorAndRetry ==
  /\ AlertShown
  /\ user # Missing
  /\ \E s \in Slots : fetches[s] = NoFetch
  /\ error' = Missing
  /\ loading' = TRUE
  /\ fetches' = StartFetch(fetches, user[1].email)
  /\ lastEvent' = Quiet("dismiss")
  /\ UNCHANGED <<authVars, routeVars, mounted, pathname, stats, dashEffect>>

\* onDismiss={() => setError(null)}
DismissError ==
  /\ AlertShown
  /\ error' = Missing
  /\ lastEvent' = Quiet("dismiss")
  /\ UNCHANGED <<authVars, routeVars, mounted, pathname, loading, stats,
                 dashEffect, fetches>>

\* ---------------------------------------------------------- specifications

\* PrivateRoute has rendered once, with whatever the AuthProvider holds, and
\* its effect is scheduled; Dashboard is not mounted yet.
Init ==
  /\ authLoading \in BOOLEAN
  /\ user \in Users
  /\ settled = ~authLoading
  /\ authChecked = FALSE
  /\ routeEffect = TRUE
  /\ rendered = Render(authLoading, user, FALSE)
  /\ mounted = FALSE
  /\ pathname \in Paths
  /\ loading = TRUE
  /\ error = Missing
  /\ stats = ZeroStats
  /\ dashEffect = FALSE
  /\ fetches = [s \in Slots |-> NoFetch]
  /\ lastEvent = Quiet("init")

Responses == {ArrayResponse(feed) : feed \in FewFeeds} \cup {NonArrayResponse}

Next ==
  \/ PrivateRouteEffect
  \/ \E l \in BOOLEAN, u \in Users : AuthChange(l, u)
  \/ MountDashboard
  \/ UnmountDashboard
  \/ \E p \in Paths : Navigate(p)
  \/ DashboardEffect
  \/ \E s \in Slots, r \in Responses : FetchResolve(s, r)
  \/ \E s \in Slots, m \in Messages : FetchReject(s, m)
  \/ DismissError

Spec == Init /\ [][Next]_vars

\* The fetch in slot s completes, one way or the other.
Complete(s) ==
  \/ \E r \in Responses : FetchResolve(s, r)
  \/ \E m \in Messages : FetchReject(s, m)

\* The Dashboard once auth has settled: PrivateRoute has latched
\* authChecked and the AuthProvider changes only the user.
FairInit ==
  /\ authLoading = FALSE
  /\ user \in Users
  /\ settled = TRUE
  /\ authChecked = TRUE
  /\ routeEffect = FALSE
  /\ rendered = Render(FALSE, user, TRUE)
  /\ mounted = FALSE
  /\ pathname \in Paths
  /\ loading = TRUE
  /\ error = Missing
  /\ stats = ZeroStats
  /\ dashEffect = FALSE
  /\ fetches = [s \in Slots |-> NoFetch]
  /\ lastEvent = Quiet("init")

FairNext ==
  \/ \E u \in Users : AuthChange(FALSE, u)
  \/ MountDashboard
  \/ UnmountDashboard
  \/ \E p \in Paths : Navigate(p)
  \/ DashboardEffect
  \/ \E s \in Slots, r \in Responses : FetchResolve(s, r)
  \/ \E s \in Slots, m \in Messages : FetchReject(s, m)
  \/ DismissError

\* React runs every scheduled effect and every started fetch completes.  The
\* AuthProvider, the router and the user are free to act or not.
FairSpec ==
  /\ FairInit
  /\ [][FairNext]_vars
  /\ WF_vars(DashboardEffect)
  /\ \A s \in Slots : WF_vars(Complete(s))

\* One fetch of a Dashboard mounted on /dashboard for a signed-in user, over
\* every feed up to MaxFeedLen.
StatsInit ==
  /\ authLoading = FALSE
  /\ user \in Users \ {Missing}
  /\ settled = TRUE
  /\ authChecked = TRUE
  /\ routeEffect = FALSE
  /\ rendered = "children"
  /\ mounted = TRUE
  /\ pathname = "/dashboard"
  /\ loading = TRUE
  /\ error = Missing
  /\ stats = ZeroStats
  /\ dashEffect = TRUE
  /\ fetches = [s \in Slots |-> NoFetch]
  /\ lastEvent = Quiet("mount")

StatsNext ==
  \/ DashboardEffect
  \/ \E s \in Slots, feed \in AllFeeds : FetchResolve(s, ArrayResponse(feed))

StatsSpec == StatsInit /\ [][StatsNext]_vars

\* ------------------------------------------------------------ PrivateRoute

\* C1: in every reachable state PrivateRoute's output is the spinner iff the
\* AuthContext is loading and has never yet reported loading = false
\* (auth has not settled), the redirect iff auth has settled and there is
\* no user, and the children otherwise; the children are never rendered
\* while user is null.
PrivateRouteOutput ==
  /\ (rendered = "spinner") <=> (authLoading /\ ~settled)
  /\ (rendered = "redirect") <=> (settled /\ user = Missing)
  /\ (rendered = "children") <=>
       (~(authLoading /\ ~settled) /\ ~(settled /\ user = Missing))
  /\ (rendered = "children") => (user # Missing)

\* The AuthContext loads again after auth settled and the effect latched
\* authChecked: the children stay rendered.
PrivateRouteOutputWitness ==
  /\ authLoading
  /\ authChecked
  /\ ~routeEffect
  /\ rendered = "children"

\* ------------------------------------------------------------------ totals

\* A live fetch has just resolved with an array.
ArrayResolved ==
  /\ lastEvent.type = "resolve"
  /\ lastEvent.live
  /\ lastEvent.response.kind = "array"

\* Two characters that are the same letter in either case.
SameLetter(c, d) ==
  \/ c = d
  \/ {c, d} \in {{"a", "A"}, {"b", "B"}, {"x", "X"}}

\* An optional string that equals email up to the case of its letters.
MatchesIgnoringCase(m, email) ==
  /\ m # Missing
  /\ Len(m[1]) = Len(email)
  /\ \A i \in 1..Len(email) : SameLetter(m[1][i], email[i])

\* The positions of feed whose uploader_email matches email.
ByUploaderEmail(feed, email) ==
  {i \in DOMAIN feed : MatchesIgnoringCase(feed[i].uploader_email, email)}

\* The positions of feed whose uploader_email, or else whose nested
\* uploader.email, matches email.
ByEitherEmail(feed, email) ==
  {i \in DOMAIN feed :
     \/ MatchesIgnoringCase(feed[i].uploader_email, email)
     \/ /\ feed[i].uploader # Missing
        /\ MatchesIgnoringCase(feed[i].uploader[1].email, email)}

\* The sum of an optional field (views or likes) over positions I of feed.
SumAt(feed, I, field) ==
  LET f[i \in 0..Len(feed)] ==
        IF i = 0 THEN 0
        ELSE f[i - 1] + (IF i \in I /\ feed[i][field] # Missing
                         THEN feed[i][field][1] ELSE 0)
  IN  f[Len(feed)]

TotalsOver(feed, I) ==
  /\ stats.totalVideos = Cardinality(I)
  /\ stats.totalViews = SumAt(feed, I, "views")
  /\ stats.totalLikes = SumAt(feed, I, "likes")

\* C2 as stated: after a fetch resolves with an array, the totals are the
\* sums and the count over exactly the records whose uploader_email matches
\* the user's email case-insensitively.
TotalsOverUploaderEmail ==
  ArrayResolved =>
    TotalsOver(lastEvent.response.value,
               ByUploaderEmail(lastEvent.response.value, lastEvent.email))

\* C2 as amended: after a fetch resolves with an array, the totals are the
\* sums (a missing value counting as 0) and the count over exactly the
\* records whose uploader_email or nested uploader.email matches the user's
\* email case-insensitively.
TotalsOverEitherEmail ==
  ArrayResolved =>
    TotalsOver(lastEvent.response.value,
               ByEitherEmail(lastEvent.response.value, lastEvent.email))

\* A feed with the other spelling of the user's address, a record matching
\* only by its nested uploader, one with missing counters and another
\* user's record.
TotalsWitness ==
  /\ ArrayResolved
  /\ lastEvent.email = ax
  /\ {lastEvent.response.value[i].id : i \in DOMAIN lastEvent.response.value}
       = {1, 3, 4, 5}
  /\ stats.totalVideos = 3
  /\ stats.totalViews = 15

\* ------------------------------------------------------- recent and popular

\* The number of positions of s (a sequence, or the records at the matching
\* positions) holding v.
Count(s, v) == Cardinality({i \in DOMAIN s : s[i] = v})

\* The user's matching records of the resolved feed, as the filter keeps
\* them.
Matching ==
  LET feed == lastEvent.response.value
  IN  [i \in ByEitherEmail(feed, lastEvent.email) |-> feed[i]]

\* a's upload_date is not later than b's, comparing year, month, day; a
\* missing date is older than every date.
NotLater(a, b) ==
  \/ a.upload_date = Missing
  \/ /\ b.upload_date # Missing
     /\ LET x == a.upload_date[1]
            y == b.upload_date[1]
        IN  \/ x[1] < y[1]
            \/ x[1] = y[1] /\ x[2] < y[2]
            \/ x[1] = y[1] /\ x[2] = y[2] /\ x[3] <= y[3]

\* a's views are not more than b's, a missing value being 0.
NotMoreViewed(a, b) ==
  \/ a.views = Missing
  \/ b.views # Missing /\ a.views[1] <= b.views[1]
  \/ a.views[1] = 0

NotAbove(a, b, order) ==
  IF order = "upload_date" THEN NotLater(a, b) ELSE NotMoreViewed(a, b)

\* top is the first n (or all, when fewer) of the matching records in some
\* sequence of them that is descending in order.
IsTopOf(top, n, order) ==
  LET mine == Matching
      k == Cardinality(DOMAIN mine)
  IN  /\ Len(top) = IF k < n THEN k ELSE n
      /\ \A i, j \in DOMAIN top : i < j => NotAbove(top[j], top[i], order)
      /\ \A v \in Videos :
           /\ Count(top, v) <= Count(mine, v)
           /\ Count(top, v) < Count(mine, v)
              => \A i \in DOMAIN top : NotAbove(v, top[i], order)

\* C3: after a fetch resolves with an array, recentVideos is the first
\* min(3, n) of the user's n matching records sorted by upload_date
\* descending, a missing upload_date being older than every date.
RecentIsTopThreeByDate ==
  ArrayResolved => IsTopOf(stats.recentVideos, 3, "upload_date")

\* Four matching records, one of them without a date: it is the one left
\* out.
RecentWitness ==
  /\ ArrayResolved
  /\ Cardinality(DOMAIN Matching) = 4
  /\ \E i \in DOMAIN Matching : Matching[i].upload_date = Missing
  /\ Len(stats.recentVideos) = 3
  /\ \A i \in 1..3 : stats.recentVideos[i].upload_date # Missing

\* C4: after a fetch resolves with an array, popularVideos is the first
\* min(2, n) of the user's n matching records sorted by views descending, a
\* missing views value being 0.
PopularIsTopTwoByViews ==
  ArrayResolved => IsTopOf(stats.popularVideos, 2, "views")

\* Three matching records, one of them without views: it is the one left
\* out.
PopularWitness ==
  /\ ArrayResolved
  /\ Cardinality(DOMAIN Matching) = 3
  /\ \E i \in DOMAIN Matching : Matching[i].views = Missing
  /\ Len(stats.popularVideos) = 2
  /\ \A i \in 1..2 : stats.popularVideos[i].views # Missing

\* ---------------------------------------------------------------- failures

\* C5: after getVideoFeed rejects while its effect is live, stats are the
\* all-zero/empty default and error is a non-null message, whatever stats
\* held before.
RejectResetsStats ==
  (lastEvent.type = "reject" /\ lastEvent.live) =>
    /\ stats = ZeroStats
    /\ error # Missing
    /\ error[1] = (IF lastEvent.response.message = Missing
                   THEN DefaultMessage
                   ELSE lastEvent.response.message[1])

\* A live rejection that found a user's figures in stats.
RejectWitness ==
  /\ lastEvent.type = "reject"
  /\ lastEvent.live
  /\ lastEvent.hadStats
  /\ stats = ZeroStats

\* C6: after getVideoFeed resolves with a non-array while its effect is
\* live, stats are the all-zero/empty default whatever they held before,
\* error is still null and loading is false.
NonArrayResetsStats ==
  (/\ lastEvent.type = "resolve"
   /\ lastEvent.live
   /\ lastEvent.response.kind = "nonarray") =>
    /\ stats = ZeroStats
    /\ error = Missing
    /\ loading = FALSE

\* A live non-array response that found a user's figures in stats.
NonArrayWitness ==
  /\ lastEvent.type = "resolve"
  /\ lastEvent.live
  /\ lastEvent.response.kind = "nonarray"
  /\ lastEvent.hadStats
  /\ stats = ZeroStats

\* ------------------------------------------------------------- concurrency

Completions == {"resolve", "reject"}

LastCompletionWins ==
  (/\ lastEvent.type \in Completions
   /\ lastEvent.overlapped
   /\ InFlight = {}) =>
    <<stats, error, loading>> = ResultOf(lastEvent.email, lastEvent.response)

\* C8 as amended: of the fetches in flight together at most one is live, the
\* one the latest run of the effect started; its completion leaves its
\* result in stats, error and loading, and the completion of any other
\* changes nothing, in whatever order they complete.
LatestEffectWins ==
  [][/\ Cardinality({s \in Slots : fetches'[s] # NoFetch
                                    /\ fetches'[s][1].isMounted}) <= 1
     /\ (lastEvent'.type \in Completions /\ lastEvent'.overlapped) =>
          IF lastEvent'.live
          THEN <<stats', error', loading'>>
                 = ResultOf(lastEvent'.email, lastEvent'.response)
          ELSE UNCHANGED <<stats, error, loading>>]_vars

\* The earlier fetch completed last, and the state still holds the figures
\* of the later one.
LatestEffectWitness ==
  /\ lastEvent.type = "resolve"
  /\ lastEvent.overlapped
  /\ ~lastEvent.live
  /\ InFlight = {}
  /\ mounted
  /\ stats # ZeroStats
  /\ ~loading
  /\ <<stats, error, loading>> # ResultOf(lastEvent.email, lastEvent.response)

\* ----------------------------------------------------------------- retries

\* The step schedules the effect: a mount, or a change of isMainDashboard
\* or of user?.email.
Triggers ==
  \/ ~mounted /\ mounted'
  \/ IsMainDashboard(pathname') # IsMainDashboard(pathname)
  \/ EmailOf(user') # EmailOf(user)

\* C9: the calls in flight grow only in a run of the effect, by one, and the
\* effect runs only when a mount or a change of isMainDashboard or of the
\* user's email scheduled it; the completion of a fetch, failed or not,
\* starts no call, and neither does dismissing the error.
NoRetries ==
  [][/\ Cardinality(InFlight') > Cardinality(InFlight) =>
          /\ lastEvent'.type = "effect"
          /\ dashEffect
          /\ Cardinality(InFlight') = Cardinality(InFlight) + 1
     /\ (~dashEffect /\ dashEffect') => Triggers
     /\ lastEvent'.type \in Completions =>
          Cardinality(InFlight') = Cardinality(InFlight) - 1
     /\ lastEvent'.type = "dismiss" => UNCHANGED fetches]_vars

\* The error of a failed fetch was dismissed and no call is in flight.
NoRetriesWitness ==
  /\ lastEvent.type = "dismiss"
  /\ mounted
  /\ error = Missing
  /\ InFlight = {}

\* ----------------------------------------------------------------- loading

\* The runs of the effect that fetch nothing, and the completions of live
\* fetches, leave loading = false.
LoadingCleared ==
  /\ (lastEvent.type = "effect" /\ ~lastEvent.live) =>
       (~loading /\ SkipsFetch(pathname, user))
  /\ (lastEvent.type \in Completions /\ lastEvent.live) => ~loading

\* C10 as stated: provided every started fetch completes, a mounted
\* Dashboard that is loading eventually is not loading (or is unmounted).
LoadingSettles ==
  /\ []LoadingCleared
  /\ (mounted /\ loading) ~> (~loading \/ ~mounted)

\* C10 as amended: provided every started fetch completes and the effect is
\* scheduled again only finitely often (isMainDashboard and the user's
\* email eventually stop changing), a mounted Dashboard that is loading
\* eventually is not loading (or is unmounted); the runs of the effect that
\* fetch nothing and the completions of live fetches leave loading = false.
LoadingSettlesOnceTriggersStop ==
  /\ []LoadingCleared
  /\ ([]<>dashEffect) \/ ((mounted /\ loading) ~> (~loading \/ ~mounted))

\* A live fetch was rejected and left a mounted Dashboard not loading.
LoadingSettlesWitness ==
  /\ mounted
  /\ ~loading
  /\ lastEvent.type = "reject"
  /\ lastEvent.live
  /\ ~dashEffect

\* ------------------------------------------------------------ DashboardHome

\* The render passes stats to DashboardHome: isMainDashboard, not loading,
\* no error.
DashboardHomeShown ==
  /\ mounted
  /\ IsMainDashboard(pathname)
  /\ ~loading
  /\ error = Missing

\* C11: whenever DashboardHome is rendered for a signed-in user, the stats
\* passed to it are the all-zero/empty default or the figures of a feed
\* filtered by that user's email; figures computed for a previous user are
\* never displayed for the current one.
StatsBelongToRenderedUser ==
  (DashboardHomeShown /\ user # Missing) =>
    \/ stats = ZeroStats
    \/ \E r \in Responses :
         /\ r.kind = "array"
         /\ stats = ComputeStats(r.value, user[1].email)

=============================================================================
